---- MODULE Spec2Model ----
(***************************************************************************)
(* A model of the D-Bus body codec of dbus-native (src/marshalled.rs):     *)
(* the builders (MultiBuf, ArrayBuf, DictBuf, StructBuf, VariantBuf and    *)
(* the Marshal implementations) and the readers (Multi, MultiIter, Single, *)
(* Array, Dict); and of the interface builder of dbus crossroads          *)
(* (src/crossroads/info.rs: IfaceInfoBuilder).                             *)
(*                                                                         *)
(* Representation.                                                         *)
(*  - A signature is a sequence of one-character strings; Ord gives the    *)
(*    byte a character is written as.                                      *)
(*  - An integer of width w is its sequence of w base-256 digits, least    *)
(*    significant first, so that every 32- and 64-bit value is a value of  *)
(*    the model; to_ne_bytes, from_le_bytes and from_be_bytes act on it.   *)
(*  - An owned Vec<u8> of a builder is run-length encoded: a sequence of   *)
(*    runs [b |-> byte, n |-> count], n >= 1, adjacent runs of different   *)
(*    bytes.  Every byte string has exactly one such form, so equality of  *)
(*    the forms is equality of the bytes, and a buffer at the 64 MiB cap   *)
(*    is a value of the model.                                             *)
(*  - A borrowed &[u8] of a reader is a window [lo, hi) of the variable    *)
(*    bytes, the buffer the outermost Multi was made over: lo is the true  *)
(*    offset of the view's first byte from the body origin.                *)
(*  - A Result is [st |-> "Ok" | "Err" | "Panic", v |-> ...]; "Panic" is   *)
(*    the abort of an out-of-range slice index.                            *)
(***************************************************************************)
EXTENDS Integers, Sequences, FiniteSets, TLC

\* ------------------------------------------------------------------ bounds

\* Most values appended to the MultiBuf that is then read.
MaxElems == 2
\* Longest data of that MultiBuf, in bytes.
MaxBytes == 24
\* Longest raw byte slice, over the full raw alphabet, handed to Multi::new
\* and Single::new.
MaxRawLen == 4
\* Most values accepted by the buffers driven to their caps.
MaxCalls == 3
\* Most errors the client takes from one iterator before it drops it.
MaxErrs == 2
\* Most methods, signals and properties the client describes on an interface.
MaxItems == 2

\* ------------------------------------------------------- program constants

ARRAY_MAX_LEN == 67108864

\* ------------------------------------------------------------- results

Ok(v) == [st |-> "Ok", v |-> v]
Err(e) == [st |-> "Err", v |-> e]
Panic == [st |-> "Panic", v |-> "slice index out of range"]
None == [st |-> "None", v |-> "None"]

\* ------------------------------------------------------------- alignment

\* (pos + align - 1) & !(align - 1), align a power of two: the low bits of
\* pos + align - 1 are cleared.
\* align_up without the rounding.
align_up_none(pos, align) == pos

align_up(pos, align) ==
    LET x == pos + align - 1 IN x - (x % align)

align_of(c) ==
    CASE c \in {"y", "g", "v"} -> 1
      [] c \in {"n", "q"} -> 2
      [] c \in {"i", "u", "b", "s", "o", "a", "h"} -> 4
      [] c \in {"x", "t", "d", "(", "{"} -> 8

\* ------------------------------------------------------ run-length bytes

RECURSIVE BLen(_)
BLen(r) == IF r = <<>> THEN 0 ELSE Head(r).n + BLen(Tail(r))

\* Vec::extend_from_slice on normal forms.
BCat(r1, r2) ==
    IF r1 = <<>> THEN r2
    ELSE IF r2 = <<>> THEN r1
    ELSE LET l == r1[Len(r1)]
             h == Head(r2)
         IN IF l.b = h.b
            THEN SubSeq(r1, 1, Len(r1) - 1) \o <<[b |-> l.b, n |-> l.n + h.n]>> \o Tail(r2)
            ELSE r1 \o r2

BRun(b, n) == IF n = 0 THEN <<>> ELSE <<[b |-> b, n |-> n]>>

RECURSIVE BOf(_)
BOf(s) == IF s = <<>> THEN <<>> ELSE BCat(BRun(Head(s), 1), BOf(Tail(s)))

\* Vec::truncate(n): the first n bytes (all of them when n >= len).
RECURSIVE BTake(_, _)
BTake(r, n) ==
    IF r = <<>> \/ n = 0 THEN <<>>
    ELSE IF Head(r).n >= n THEN BRun(Head(r).b, n)
    ELSE <<Head(r)>> \o BTake(Tail(r), n - Head(r).n)

\* The flat byte sequence of a run-length form.
RECURSIVE BFlat(_)
BFlat(r) ==
    IF r = <<>> THEN <<>>
    ELSE [i \in 1..Head(r).n |-> Head(r).b] \o BFlat(Tail(r))

\* ------------------------------------------------------------- integers

Reverse(s) == [i \in 1..Len(s) |-> s[Len(s) + 1 - i]]

\* n as u32, n as u8: the digits of a length.
U32Digits(n) ==
    <<n % 256, (n \div 256) % 256, (n \div 65536) % 256, (n \div 16777216) % 256>>

\* x as usize for a u32 x.  Every use compares the result, plus at most 5,
\* with ARRAY_MAX_LEN or with the length of a view; values of 2^30 and above
\* behave alike in all of them and are represented by 2^30.
AsUsize(d) ==
    IF d[4] >= 64 THEN 1073741824
    ELSE d[1] + 256 * d[2] + 65536 * d[3] + 16777216 * d[4]

\* ------------------------------------------------------------ signatures

\* The byte of each type character (b'y', b'a', ...).
Ord ==
    [c \in {"y", "b", "n", "q", "i", "u", "x", "t", "d", "h", "s", "o", "g",
            "a", "v", "(", ")", "{", "}"} |->
        CASE c = "y" -> 121 [] c = "b" -> 98 [] c = "n" -> 110 [] c = "q" -> 113
          [] c = "i" -> 105 [] c = "u" -> 117 [] c = "x" -> 120 [] c = "t" -> 116
          [] c = "d" -> 100 [] c = "h" -> 104 [] c = "s" -> 115 [] c = "o" -> 111
          [] c = "g" -> 103 [] c = "a" -> 97 [] c = "v" -> 118 [] c = "(" -> 40
          [] c = ")" -> 41 [] c = "{" -> 123 [] c = "}" -> 125]

SigChars == DOMAIN Ord
BasicChars == {"y", "b", "n", "q", "i", "u", "x", "t", "d", "h", "s", "o", "g"}

as_bytes(sig) == [i \in 1..Len(sig) |-> Ord[sig[i]]]

\* The index just after the complete type that starts at s[i], or 0 when
\* there is none (dbus_strings: the grammar of a single complete type).
RECURSIVE TypeEnd(_, _)
RECURSIVE StructEnd(_, _, _)
\* The index just after the run of basic types and variants that starts at
\* s[i].
RunEnd(s, i) ==
    CHOOSE j \in i..(Len(s) + 1) :
        /\ \A m \in i..(j - 1) : s[m] \in BasicChars \cup {"v"}
        /\ (j <= Len(s) => s[j] \notin BasicChars \cup {"v"})
TypeEnd(s, i) ==
    IF i > Len(s) THEN 0
    ELSE IF s[i] \in BasicChars \cup {"v"} THEN i + 1
    ELSE IF s[i] = "a" THEN
        IF i + 1 <= Len(s) /\ s[i + 1] = "{"
        THEN IF i + 2 <= Len(s) /\ s[i + 2] \in BasicChars
             THEN LET e == TypeEnd(s, i + 3)
                  IN IF e # 0 /\ e <= Len(s) /\ s[e] = "}" THEN e + 1 ELSE 0
             ELSE 0
        ELSE TypeEnd(s, i + 1)
    ELSE IF s[i] = "(" THEN StructEnd(s, i + 1, 0)
    ELSE 0
StructEnd(s, i, k) ==
    IF i > Len(s) THEN 0
    ELSE IF s[i] = ")" THEN (IF k = 0 THEN 0 ELSE i + 1)
    ELSE IF s[i] \in BasicChars \cup {"v"} THEN StructEnd(s, RunEnd(s, i), k + 1)
    ELSE LET e == TypeEnd(s, i) IN IF e = 0 THEN 0 ELSE StructEnd(s, e, k + 1)

\* SignatureMulti::is_valid: a sequence of complete types, at most 255 bytes.
RECURSIVE TypesFrom(_, _)
TypesFrom(s, i) ==
    IF i > Len(s) THEN TRUE
    ELSE IF s[i] \in BasicChars \cup {"v"} THEN TypesFrom(s, RunEnd(s, i))
    ELSE LET e == TypeEnd(s, i) IN e # 0 /\ TypesFrom(s, e)
SignatureMulti_is_valid(s) == Len(s) <= 255 /\ TypesFrom(s, 1)

\* SignatureSingle::is_valid: exactly one complete type.
SignatureSingle_is_valid(s) == Len(s) <= 255 /\ TypeEnd(s, 1) = Len(s) + 1

\* SignatureMulti::single: the first complete type and the rest, or None
\* for the empty signature.
single(sig) ==
    IF sig = <<>> THEN None
    ELSE LET e == TypeEnd(sig, 1)
         IN Ok(<<SubSeq(sig, 1, e - 1), SubSeq(sig, e, Len(sig))>>)

\* ------------------------------------------------------- Marshal values

\* marshal_impl!(type, signature, alignment)
MarshalImpls == {"u8", "u16", "u32", "u64", "i16", "i32", "i64", "f64"}
marshal_impl_sig(k) ==
    CASE k = "u8" -> "y" [] k = "u16" -> "q" [] k = "u32" -> "u" [] k = "u64" -> "t"
      [] k = "i16" -> "n" [] k = "i32" -> "i" [] k = "i64" -> "x" [] k = "f64" -> "d"
marshal_impl_align(k) ==
    CASE k = "u8" -> 1 [] k = "u16" -> 2 [] k = "u32" -> 4 [] k = "u64" -> 8
      [] k = "i16" -> 2 [] k = "i32" -> 4 [] k = "i64" -> 8 [] k = "f64" -> 8

\* A scalar: its kind and its digits, least significant first (for f64, the
\* digits of its IEEE-754 bit pattern).
Scalar(k, d) == [k |-> k, d |-> d]
\* A DBusStr, ObjectPath, SignatureMulti or SignatureSingle: its bytes
\* (run-length form).
StringLike(k, s) == [k |-> k, s |-> s]

\* Marshal::signature
signature(value) ==
    CASE value.k \in MarshalImpls -> <<marshal_impl_sig(value.k)>>
      [] value.k = "DBusStr" -> <<"s">>
      [] value.k = "ObjectPath" -> <<"o">>
      [] value.k \in {"SignatureMulti", "SignatureSingle"} -> <<"g">>
      [] value.k \in {"ArrayBuf", "DictBuf", "StructBuf"} -> value.outer_sig
      [] value.k = "VariantBuf" -> <<"v">>

\* align_buf: zero bytes up to the next multiple of align.
align_buf(v, align) ==
    LET vlen == BLen(v)
        x == align_up(vlen, align)
    IN BCat(v, BRun(0, x - vlen))

\* to_ne_bytes on the host this build targets.
to_ne_bytes(d, big) == IF big THEN Reverse(d) ELSE d

\* marshal_impl!: append_data_to
marshal_impl_append_data_to(k, d, v, big) ==
    BCat(align_buf(v, marshal_impl_align(k)), BOf(to_ne_bytes(d, big)))

\* impl Marshal for DBusStr
DBusStr_append_data_to(s, v, big) ==
    LET slen == U32Digits(BLen(s))
        v1 == marshal_impl_append_data_to("u32", slen, v, big)
    IN BCat(BCat(v1, s), BRun(0, 1))

\* impl Marshal for SignatureMulti, SignatureSingle
Signature_append_data_to(s, v) ==
    BCat(BCat(BCat(v, BRun(BLen(s) % 256, 1)), s), BRun(0, 1))

\* impl Marshal for ArrayBuf, impl Marshal for DictBuf
ArrayBuf_append_data_to(self, v, big) ==
    LET slen == U32Digits(BLen(self.data))
        v1 == marshal_impl_append_data_to("u32", slen, v, big)
        v2 == align_buf(v1, align_of(self.outer_sig[2]))
    IN BCat(v2, self.data)

\* impl Marshal for StructBuf
StructBuf_append_data_to(self, v) ==
    BCat(align_buf(v, 8), self.inner.data)

\* impl Marshal for VariantBuf
VariantBuf_append_data_to(self, v) ==
    LET v1 == Signature_append_data_to(BOf(as_bytes(self.sig)), v)
        v2 == align_buf(v1, align_of(self.sig[1]))
    IN BCat(v2, self.data)

\* Marshal::append_data_to, by the implementation of the value's type.
append_data_to(value, v, big) ==
    CASE value.k \in MarshalImpls -> marshal_impl_append_data_to(value.k, value.d, v, big)
      [] value.k \in {"DBusStr", "ObjectPath"} -> DBusStr_append_data_to(value.s, v, big)
      [] value.k \in {"SignatureMulti", "SignatureSingle"} -> Signature_append_data_to(value.s, v)
      [] value.k \in {"ArrayBuf", "DictBuf"} -> ArrayBuf_append_data_to(value, v, big)
      [] value.k = "StructBuf" -> StructBuf_append_data_to(value, v)
      [] value.k = "VariantBuf" -> VariantBuf_append_data_to(value, v)

\* Where values land (ghost).  A mark <<p, c>> says: a value of type
\* character c starts at offset p of the buffer.  Each buffer carries the
\* marks of the values in its data; MarksOf gives the marks a value adds to
\* a buffer of length vlen, those of the values nested in it moved with
\* their bytes.
Shift(marks, by) == {<<m[1] + by, m[2]>> : m \in marks}
MarksOf(value, vlen) ==
    CASE value.k \in MarshalImpls ->
            {<<align_up(vlen, marshal_impl_align(value.k)), marshal_impl_sig(value.k)>>}
      [] value.k = "DBusStr" -> {<<align_up(vlen, 4), "s">>}
      [] value.k = "ObjectPath" -> {<<align_up(vlen, 4), "o">>}
      [] value.k \in {"SignatureMulti", "SignatureSingle"} -> {<<vlen, "g">>}
      [] value.k \in {"ArrayBuf", "DictBuf"} ->
            LET p == align_up(vlen, 4)
            IN {<<p, "a">>}
               \cup Shift(value.marks, align_up(p + 4, align_of(value.outer_sig[2])))
      [] value.k = "StructBuf" ->
            LET p == align_up(vlen, 8)
            IN {<<p, "(">>} \cup Shift(value.inner.marks, p)
      [] value.k = "VariantBuf" ->
            {<<vlen, "v">>}
            \cup Shift(value.marks,
                       align_up(vlen + Len(value.sig) + 2, align_of(value.sig[1])))


\* ------------------------------------------------------------- builders

\* MultiBuf::new (Default): the empty signature and no data.
MultiBuf_new == [sig |-> <<>>, data |-> <<>>, marks |-> {}]

\* MultiBuf::append refusing a signature of exactly 255 bytes.
MultiBuf_append_ge(self, value, big) ==
    LET new_sig == signature(value)
    IN IF Len(self.sig) + Len(new_sig) >= 255
       THEN [res |-> Err("NumberTooBig"), self |-> self]
       ELSE [res |-> Ok("unit"),
             self |-> [sig |-> self.sig \o new_sig,
                       data |-> append_data_to(value, self.data, big),
                       marks |-> self.marks \cup MarksOf(value, BLen(self.data))]]

\* MultiBuf::append.  The result and the buffer after the call.
MultiBuf_append(self, value, big) ==
    LET new_sig == signature(value)
    IN IF Len(self.sig) + Len(new_sig) > 255
       THEN [res |-> Err("NumberTooBig"), self |-> self]
       ELSE [res |-> Ok("unit"),
             self |-> [sig |-> self.sig \o new_sig,
                       data |-> append_data_to(value, self.data, big),
                       marks |-> self.marks \cup MarksOf(value, BLen(self.data))]]

\* MultiBuf::into_inner
MultiBuf_into_inner(self) == <<self.sig, self.data>>

\* ArrayBuf::new
ArrayBuf_new(sig) ==
    LET x == <<"a">> \o sig
    IN IF ~SignatureSingle_is_valid(x) THEN Err("InvalidString")
       ELSE Ok([k |-> "ArrayBuf", outer_sig |-> x, data |-> <<>>, marks |-> {}])

\* verify_array_size without the truncate.
verify_array_size_keep(self, old_len) ==
    IF BLen(self.data) > ARRAY_MAX_LEN
    THEN [res |-> Err("NumberTooBig"), self |-> self]
    ELSE [res |-> Ok("unit"), self |-> self]

\* ArrayBuf::verify_array_size
verify_array_size(self, old_len) ==
    IF BLen(self.data) > ARRAY_MAX_LEN
    THEN [res |-> Err("NumberTooBig"),
          self |-> [self EXCEPT !.data = BTake(self.data, old_len)]]
    ELSE [res |-> Ok("unit"), self |-> self]

\* ArrayBuf::append without the comparison of the signatures.
ArrayBuf_append_any(self, value, big) ==
    LET old_len == BLen(self.data)
        r == verify_array_size(
               [self EXCEPT !.data = append_data_to(value, self.data, big)], old_len)
    IN IF r.res.st = "Ok"
       THEN [r EXCEPT !.self.marks = self.marks \cup MarksOf(value, old_len)]
       ELSE r

\* ArrayBuf::append
ArrayBuf_append(self, value, big) ==
    IF SubSeq(self.outer_sig, 2, Len(self.outer_sig)) # signature(value)
    THEN [res |-> Err("WrongType"), self |-> self]
    ELSE LET old_len == BLen(self.data)
             r == verify_array_size(
                    [self EXCEPT !.data = append_data_to(value, self.data, big)], old_len)
         IN IF r.res.st = "Ok"
            THEN [r EXCEPT !.self.marks = self.marks \cup MarksOf(value, old_len)]
            ELSE r

\* DictBuf::new
DictBuf_new(key_sig, value_sig) ==
    LET x == <<"a", "{">> \o key_sig \o value_sig \o <<"}">>
    IN IF ~SignatureSingle_is_valid(x) THEN Err("InvalidString")
       ELSE Ok([k |-> "DictBuf", key_sig |-> key_sig, value_sig |-> value_sig,
                outer_sig |-> x, data |-> <<>>, marks |-> {}])

\* DictBuf::append
DictBuf_append(self, key, value, big) ==
    IF self.value_sig # signature(value) THEN [res |-> Err("WrongType"), self |-> self]
    ELSE IF self.key_sig # signature(key) THEN [res |-> Err("WrongType"), self |-> self]
    ELSE LET old_len == BLen(self.data)
             d0 == align_buf(self.data, 8)
             d1 == append_data_to(key, d0, big)
             d2 == append_data_to(value, d1, big)
         IN IF BLen(d2) > ARRAY_MAX_LEN
            THEN [res |-> Err("NumberTooBig"),
                  self |-> [self EXCEPT !.data = BTake(d2, old_len)]]
            ELSE [res |-> Ok("unit"),
                  self |-> [self EXCEPT
                              !.data = d2,
                              !.marks = self.marks \cup {<<BLen(d0), "{">>}
                                        \cup MarksOf(key, BLen(d0))
                                        \cup MarksOf(value, BLen(d1))]]

\* StructBuf::new
StructBuf_new(inner) ==
    LET outer_sig == <<"(">> \o inner.sig \o <<")">>
    IN IF ~SignatureSingle_is_valid(outer_sig) THEN Err("InvalidString")
       ELSE Ok([k |-> "StructBuf", inner |-> inner, outer_sig |-> outer_sig])

\* VariantBuf::new
VariantBuf_new(value, big) ==
    Ok([k |-> "VariantBuf", sig |-> signature(value),
        data |-> append_data_to(value, <<>>, big),
        marks |-> MarksOf(value, 0)])


\* -------------------------------------------------------------- readers

\* --------------------------------------------- crossroads: IfaceInfoBuilder

\* Annotations = HashMap<String, String>: a function from the keys present.
\* Default::default() and HashMap::insert (the value it returns is dropped).
Annotations_default == [n \in {} |-> ""]
HashMap_insert(x, k, v) == [n \in DOMAIN x \cup {k} |-> IF n = k THEN v ELSE x[n]]

\* build_argvec: one Argument per (name, signature) pair
build_argvec(a) ==
    [i \in 1..Len(a) |-> [name |-> a[i][1], sig |-> a[i][2], anns |-> Annotations_default]]

\* PropInfo::new: get and set say whether a handler is given.
PropInfo_new(name, sig, get, set) ==
    [name |-> name, handlers |-> <<get, set>>, sig |-> sig, auto_emit |-> TRUE,
     rw |-> CASE get /\ set -> "ReadWrite" [] get /\ ~set -> "Read"
              [] ~get /\ set -> "Write" [] OTHER -> "unimplemented",
     emits |-> "True", anns |-> Annotations_default]

IfaceInfo_new_empty(name) ==
    [name |-> name, methods |-> <<>>, props |-> <<>>, signals |-> <<>>,
     anns |-> Annotations_default]

\* IfaceInfoBuilder::new(None, name); last is "None" or the MetSigProp.
IfaceInfoBuilder_new(name) == [info |-> IfaceInfo_new_empty(name), last |-> "None"]

\* IfaceInfoBuilder::signal, method, prop_rw, prop_ro: the builder returned.
IfaceInfoBuilder_signal(self, name, args) ==
    [info |-> [self.info EXCEPT !.signals =
                  Append(@, [name |-> name, args |-> build_argvec(args),
                             anns |-> Annotations_default])],
     last |-> "Signal"]

IfaceInfoBuilder_method(self, name, in_args, out_args) ==
    [info |-> [self.info EXCEPT !.methods =
                  Append(@, [name |-> name, handler |-> "f",
                             i_args |-> build_argvec(in_args),
                             o_args |-> build_argvec(out_args),
                             anns |-> Annotations_default])],
     last |-> "Method"]

IfaceInfoBuilder_prop_rw(self, name, sig) ==
    [info |-> [self.info EXCEPT !.props = Append(@, PropInfo_new(name, sig, TRUE, TRUE))],
     last |-> "Prop"]

IfaceInfoBuilder_prop_ro(self, name, sig) ==
    [info |-> [self.info EXCEPT !.props = Append(@, PropInfo_new(name, sig, TRUE, FALSE))],
     last |-> "Prop"]

\* The annotation always lands in the interface's own map.
IfaceInfoBuilder_annotate_iface(self, name, value) ==
    [res |-> Ok("Self"),
     self |-> [self EXCEPT !.info.anns = HashMap_insert(@, name, value)]]

\* IfaceInfoBuilder::annotate.  last_mut().unwrap() aborts on an empty list.
IfaceInfoBuilder_annotate(self, name, value) ==
    CASE self.last = "None" ->
           [res |-> Ok("Self"),
            self |-> [self EXCEPT !.info.anns = HashMap_insert(@, name, value)]]
      [] self.last = "Method" ->
           IF self.info.methods = <<>> THEN [res |-> Panic, self |-> self]
           ELSE [res |-> Ok("Self"),
                 self |-> [self EXCEPT !.info.methods[Len(self.info.methods)].anns =
                                          HashMap_insert(@, name, value)]]
      [] self.last = "Signal" ->
           IF self.info.signals = <<>> THEN [res |-> Panic, self |-> self]
           ELSE [res |-> Ok("Self"),
                 self |-> [self EXCEPT !.info.signals[Len(self.info.signals)].anns =
                                          HashMap_insert(@, name, value)]]
      [] self.last = "Prop" ->
           IF self.info.props = <<>> THEN [res |-> Panic, self |-> self]
           ELSE [res |-> Ok("Self"),
                 self |-> [self EXCEPT !.info.props[Len(self.info.props)].anns =
                                          HashMap_insert(@, name, value)]]

\* IfaceInfoBuilder::deprecated
IfaceInfoBuilder_deprecated(self) ==
    IfaceInfoBuilder_annotate(self, "org.freedesktop.DBus.Deprecated", "true")

VARIABLES
    IS_BIG_ENDIAN,  \* the target's endianness (cfg(target_endian))
    mb,             \* the client's MultiBuf
    ab,             \* the client's ArrayBuf, or None
    db,             \* the client's DictBuf, or None
    ib,             \* the client's IfaceInfoBuilder
    val,            \* ghost: the argument of the last append or annotate, or None
    appended,       \* ghost: the values the builders accepted (for ib: the
                    \* kinds of the items it added), in order
    bytes,          \* the byte slice the outermost Multi was made over
    multi,          \* the outermost Multi, or None
    origin,         \* ghost: "built" when bytes is what mb held, "raw" when
                    \* received, "none" while the client builds
    it,             \* the iterator the client drives (MultiIter, Array, Dict), or None
    cur,            \* the single-reader the client holds, or None
    ret             \* the last call and what it returned

vars == <<IS_BIG_ENDIAN, mb, ab, db, ib, val, appended, bytes, multi, origin, it, cur, ret>>
builder == <<mb, ab, db, val, appended>>
reader == <<bytes, multi, origin, it, cur>>

\* A view over bytes[lo+1 .. hi]: data.len(), data[i], data[a..b]
\* (which aborts when out of range) and data.get(a..b) (which gives None).
DataLen(self) == self.hi - self.lo
Slice(self, a, b) == SubSeq(bytes, self.lo + a + 1, self.lo + b)
InRange(self, a, b) == a <= b /\ b <= DataLen(self)

\* std::str::from_utf8: whether the bytes are well-formed UTF-8.
Cont(s, i, lo, hi) == i <= Len(s) /\ s[i] >= lo /\ s[i] <= hi
RECURSIVE Utf8From(_, _)
Utf8From(s, i) ==
    IF i > Len(s) THEN TRUE
    ELSE LET b == s[i]
         IN CASE b <= 127 -> Utf8From(s, i + 1)
              [] b >= 194 /\ b <= 223 -> Cont(s, i + 1, 128, 191) /\ Utf8From(s, i + 2)
              [] b >= 224 /\ b <= 239 ->
                   /\ Cont(s, i + 1, IF b = 224 THEN 160 ELSE 128, IF b = 237 THEN 159 ELSE 191)
                   /\ Cont(s, i + 2, 128, 191)
                   /\ Utf8From(s, i + 3)
              [] b >= 240 /\ b <= 244 ->
                   /\ Cont(s, i + 1, IF b = 240 THEN 144 ELSE 128, IF b = 244 THEN 143 ELSE 191)
                   /\ Cont(s, i + 2, 128, 191)
                   /\ Cont(s, i + 3, 128, 191)
                   /\ Utf8From(s, i + 4)
              [] OTHER -> FALSE
from_utf8_ok(s) == Utf8From(s, 1)

\* DBusStr::new, ObjectPath::new on valid UTF-8 (dbus_strings): no NUL
\* inside; a path is "/" or "/"-led elements of [A-Za-z0-9_], none empty.
DBusStr_is_valid(s) == \A i \in 1..Len(s) : s[i] # 0
PathChar(b) == b \in (48..57) \cup (65..90) \cup (97..122) \cup {95}
ObjectPath_is_valid(s) ==
    /\ Len(s) >= 1
    /\ s[1] = 47
    /\ (Len(s) > 1 => s[Len(s)] # 47)
    /\ \A i \in 2..Len(s) : (PathChar(s[i]) \/ (s[i] = 47 /\ s[i - 1] # 47))

\* The signature a byte string spells, when each byte is a type character.
IsSigBytes(s) == \A i \in 1..Len(s) : \E c \in SigChars : Ord[c] = s[i]
SigOfBytes(s) == [i \in 1..Len(s) |-> CHOOSE c \in SigChars : Ord[c] = s[i]]

Single(sig, lo, hi, start_pos, is_big_endian) ==
    [sig |-> sig, lo |-> lo, hi |-> hi, start_pos |-> start_pos,
     is_big_endian |-> is_big_endian]

\* Multi::new
Multi(sig, lo, hi, is_big_endian) ==
    [sig |-> sig, lo |-> lo, hi |-> hi, is_big_endian |-> is_big_endian]

\* Multi::iter
Multi_iter(self) == [inner |-> self, start_pos |-> 0]

\* <[u8; n]>::try_from(slice): the slice must be exactly n long.
try_into(x, n) == IF Len(x) = n THEN Ok(x) ELSE Err("NotEnoughData")

\* u64/u32/u16::from_be_bytes, from_le_bytes: the digits, least significant
\* first.
from_bytes_le(x, is_big_endian) == x
from_bytes(x, is_big_endian) == IF is_big_endian THEN Reverse(x) ELSE x

\* Single::read8 (and read_f64, the same bytes as an f64 bit pattern)
read8(self) ==
    IF ~InRange(self, 0, 8) THEN Panic
    ELSE LET x == try_into(Slice(self, 0, 8), 8)
         IN IF x.st # "Ok" THEN x ELSE Ok(from_bytes(x.v, self.is_big_endian))

read_f64(self) ==
    IF ~InRange(self, 0, 8) THEN Panic
    ELSE LET x == try_into(Slice(self, 0, 8), 8)
         IN IF x.st # "Ok" THEN x ELSE Ok(from_bytes(x.v, self.is_big_endian))

\* Single::read4
read4(self) ==
    IF ~InRange(self, 0, 4) THEN Panic
    ELSE LET x == try_into(Slice(self, 0, 4), 4)
         IN IF x.st # "Ok" THEN x ELSE Ok(from_bytes(x.v, self.is_big_endian))

\* Single::read2: the slice taken is data[0..1]
read2(self) ==
    IF ~InRange(self, 0, 1) THEN Panic
    ELSE LET x == try_into(Slice(self, 0, 1), 2)
         IN IF x.st # "Ok" THEN x ELSE Ok(from_bytes(x.v, self.is_big_endian))

\* Single::read1
read1(self) ==
    IF DataLen(self) = 0 THEN Err("NotEnoughData") ELSE Ok(Slice(self, 0, 1))

\* Single::read_sig
read_sig(self) ==
    LET r == read1(self)
    IN IF r.st # "Ok" THEN r
       ELSE LET siglen == r.v[1]
            IN IF ~InRange(self, 1, siglen + 1) THEN Err("NotEnoughData")
               ELSE LET sig == Slice(self, 1, siglen + 1)
                    IN IF from_utf8_ok(sig) /\ IsSigBytes(sig)
                          /\ SignatureMulti_is_valid(SigOfBytes(sig))
                       THEN Ok(SigOfBytes(sig))
                       ELSE Err("InvalidString")

\* Single::read_str::<T>, T the DBusStr or the ObjectPath
read_str(self, T) ==
    LET r == read4(self)
    IN IF r.st # "Ok" THEN r
       ELSE LET len == AsUsize(r.v)
            IN IF ~InRange(self, 4, len + 4) THEN Err("NotEnoughData")
               ELSE LET s == Slice(self, 4, len + 4)
                    IN IF from_utf8_ok(s) /\ DBusStr_is_valid(s)
                          /\ (T = "ObjectPath" => ObjectPath_is_valid(s))
                       THEN Ok(s)
                       ELSE Err("InvalidString")

\* Single::inner_variant
inner_variant(self) ==
    LET r == read1(self)
    IN IF r.st # "Ok" THEN r
       ELSE LET siglen == r.v[1]
            IN IF ~InRange(self, 1, siglen + 1) THEN Err("NotEnoughData")
               ELSE LET raw == Slice(self, 1, siglen + 1)
                    IN IF ~(from_utf8_ok(raw) /\ IsSigBytes(raw)
                            /\ SignatureSingle_is_valid(SigOfBytes(raw)))
                       THEN Err("InvalidString")
                       ELSE LET sig == SigOfBytes(raw)
                                data_start ==
                                    align_up(self.start_pos + siglen + 2, align_of(sig[1]))
                                    - self.start_pos
                            IN IF data_start > DataLen(self) THEN Err("NotEnoughData")
                               ELSE Ok(Single(sig, self.lo + data_start, self.hi,
                                              self.start_pos + data_start,
                                              self.is_big_endian))

\* Single::inner_struct
inner_struct(self) ==
    Multi(SubSeq(self.sig, 2, Len(self.sig) - 1), self.lo, self.hi, self.is_big_endian)

RECURSIVE Single_get_real_length(_)
RECURSIVE MultiIter_next(_)
RECURSIVE Multi_drain(_, _)

\* Multi::get_real_length
Multi_get_real_length(self) == Multi_drain(DataLen(self), Multi_iter(self))

\* One turn of the loop, n what iter.next() returned.
Multi_drain_turn(x, iter, n) ==
    IF n.item.st = "None" THEN Ok(x - DataLen(iter.inner))
    ELSE IF n.item.st # "Ok" THEN n.item
    ELSE Multi_drain(x, n.self)

\* The loop of Multi::get_real_length: while let Some(r) = iter.next() { r?; }
Multi_drain(x, iter) == Multi_drain_turn(x, iter, MultiIter_next(iter))

\* The 'v' arm of Single::get_real_length, x the inner reader and l its
\* real length.
variant_real_length(self, x, l) ==
    IF l.st # "Ok" THEN l ELSE Ok(l.v + (DataLen(self) - DataLen(x.v)))
variant_inner_length(self, x) ==
    IF x.st # "Ok" THEN x
    ELSE variant_real_length(self, x, Single_get_real_length(x.v))

\* Single::get_real_length
Single_get_real_length(self) ==
    LET c == self.sig[1]
    IN CASE c = "y" -> Ok(1)
         [] c \in {"n", "q"} -> Ok(2)
         [] c \in {"i", "u", "b", "h"} -> Ok(4)
         [] c \in {"x", "t", "d"} -> Ok(8)
         [] c \in {"s", "o"} ->
              LET r == read4(self)
              IN IF r.st # "Ok" THEN r ELSE Ok(AsUsize(r.v) + 4 + 1)
         [] c = "g" ->
              LET r == read1(self)
              IN IF r.st # "Ok" THEN r ELSE Ok(r.v[1] + 1 + 1)
         [] c = "a" ->
              LET r == read4(self)
              IN IF r.st # "Ok" THEN r
                 ELSE IF AsUsize(r.v) > 67108864 THEN Err("NumberTooBig")
                 ELSE Ok(AsUsize(r.v) + 4)
         [] c = "v" -> variant_inner_length(self, inner_variant(self))
         [] c = "(" -> Multi_get_real_length(inner_struct(self))

\* MultiIter::next from the real length l of the tentative single-reader s
\* on: the padding to the next element, the bounds test, the split.
MultiIter_split(self, rest, s, l) ==
    IF l.st # "Ok" THEN [item |-> l, self |-> self]
    ELSE
     LET len == IF Len(rest) > 0
                THEN align_up(l.v + self.start_pos, align_of(rest[1])) - self.start_pos
                ELSE l.v
     IN IF len > DataLen(self.inner)
        THEN [item |-> Err("NotEnoughData"), self |-> self]
        ELSE [item |-> Ok([s EXCEPT !.hi = s.lo + len]),
              self |-> [inner |-> [self.inner EXCEPT !.lo = @ + len, !.sig = rest],
                        start_pos |-> self.start_pos + len]]

MultiIter_first(self, rest, s) ==
    MultiIter_split(self, rest, s, Single_get_real_length(s))

\* MultiIter::next.  The item (None, Ok(single), Err or Panic) and the
\* iterator after the call.
MultiIter_next(self) ==
    LET sp == single(self.inner.sig)
    IN IF sp.st = "None" THEN [item |-> None, self |-> self]
       ELSE MultiIter_first(self, sp.v[2],
                            Single(sp.v[1], self.inner.lo, self.inner.hi, self.start_pos,
                                   self.inner.is_big_endian))

\* Single::parse_array
parse_array(self) ==
    LET r == read4(self)
    IN IF r.st # "Ok" THEN r
       ELSE IF AsUsize(r.v) > 67108864 THEN Err("NumberTooBig")
       ELSE
        LET x == AsUsize(r.v)
        IN IF self.sig[2] = "{"
           THEN LET inner_sig == SubSeq(self.sig, 3, Len(self.sig) - 1)
                    kv == single(inner_sig).v
                    key_sig == kv[1]
                    value_sig == single(kv[2]).v[1]
                    data_start == align_up(self.start_pos + 4, align_of("{"))
                                  - self.start_pos
                IN IF data_start + x > DataLen(self) THEN Err("NotEnoughData")
                   ELSE Ok([tag |-> "Dict",
                            v |-> [outer_sig |-> self.sig, key_sig |-> key_sig,
                                   value_sig |-> value_sig,
                                   is_big_endian |-> self.is_big_endian,
                                   lo |-> self.lo + data_start,
                                   hi |-> self.lo + data_start + x]])
           ELSE LET inner_sig == SubSeq(self.sig, 2, Len(self.sig))
                    data_start == align_up(self.start_pos + 4, align_of(inner_sig[1]))
                                  - self.start_pos
                IN IF data_start + x > DataLen(self) THEN Err("NotEnoughData")
                   ELSE Ok([tag |-> "Array",
                            v |-> [lo |-> self.lo + data_start,
                                   hi |-> self.lo + data_start + x,
                                   start_pos |-> data_start + self.start_pos,
                                   is_big_endian |-> self.is_big_endian,
                                   inner_sig |-> inner_sig]])

\* Parsed::X(value), through ?: an Err or an abort of the read passes on.
Parsed(tag, r) == IF r.st # "Ok" THEN r ELSE Ok([tag |-> tag, v |-> r.v])

\* Single::parse
parse(self) ==
    LET c == self.sig[1]
    IN CASE c = "y" -> Parsed("Byte", read1(self))
         [] c = "n" -> Parsed("Int16", read2(self))
         [] c = "q" -> Parsed("UInt16", read2(self))
         [] c = "i" -> Parsed("Int32", read4(self))
         [] c = "u" -> Parsed("UInt32", read4(self))
         [] c = "b" ->
              LET r == read4(self)
              IN IF r.st # "Ok" THEN r
                 ELSE IF r.v = <<0, 0, 0, 0>> THEN Ok([tag |-> "Boolean", v |-> FALSE])
                 ELSE IF r.v = <<1, 0, 0, 0>> THEN Ok([tag |-> "Boolean", v |-> TRUE])
                 ELSE Err("InvalidBoolean")
         [] c = "h" -> Parsed("UnixFd", read4(self))
         [] c = "x" -> Parsed("Int64", read8(self))
         [] c = "t" -> Parsed("UInt64", read8(self))
         [] c = "d" -> Parsed("Double", read_f64(self))
         [] c = "g" -> Parsed("Signature", read_sig(self))
         [] c = "s" -> Parsed("String", read_str(self, "DBusStr"))
         [] c = "o" -> Parsed("ObjectPath", read_str(self, "ObjectPath"))
         [] c = "v" -> Parsed("Variant", inner_variant(self))
         [] c = "(" -> Ok([tag |-> "Struct", v |-> inner_struct(self)])
         [] c = "a" -> parse_array(self)

\* The empty slice &[]: it borrows nothing of bytes.
EmptySlice == [lo |-> 0, hi |-> 0]

\* Array::next from the real length l of the tentative single-reader s on.
Array_take(self, s, l) ==
    IF l.st = "Panic" THEN [item |-> l, self |-> self]
    ELSE IF ~(l.st = "Ok" /\ l.v <= DataLen(self))
    THEN [item |-> Err("NotEnoughData"), self |-> self]
    ELSE
     LET len == l.v
         s1 == [s EXCEPT !.hi = s.lo + len]
     IN IF len < DataLen(s1)
        THEN LET len2 == align_up(len + self.start_pos, align_of(self.inner_sig[1]))
                         - self.start_pos
             IN IF len2 > DataLen(self) THEN [item |-> Panic, self |-> self]
                ELSE [item |-> Ok(s1),
                      self |-> [self EXCEPT !.start_pos = @ + len2, !.lo = @ + len2]]
        ELSE [item |-> Ok(s1),
              self |-> [self EXCEPT !.lo = EmptySlice.lo, !.hi = EmptySlice.hi]]

Array_first(self, s) == Array_take(self, s, Single_get_real_length(s))

\* Array::next.  The item and the view after the call.
Array_next(self) ==
    IF DataLen(self) = 0 THEN [item |-> None, self |-> self]
    ELSE Array_first(self, Single(self.inner_sig, self.lo, self.hi, self.start_pos,
                                  self.is_big_endian))

\* The match of Dict::next on (mi.next(), mi.next()), n1 and n2 what the two
\* calls returned.
Dict_match(self, n1, n2) ==
    IF n1.item.st = "Panic" THEN [item |-> Panic, self |-> self]
    ELSE IF n2.item.st = "Panic" THEN [item |-> Panic, self |-> self]
    ELSE IF n1.item.st = "Ok" /\ n2.item.st = "Ok"
    THEN LET len == DataLen(self) - DataLen(n2.self.inner)
         IN IF len < DataLen(self)
            THEN IF align_up(len, 8) > DataLen(self)
                 THEN [item |-> Panic, self |-> self]
                 ELSE [item |-> Ok(<<n1.item.v, n2.item.v>>),
                       self |-> [self EXCEPT !.lo = @ + align_up(len, 8)]]
            ELSE [item |-> Ok(<<n1.item.v, n2.item.v>>),
                  self |-> [self EXCEPT !.lo = EmptySlice.lo, !.hi = EmptySlice.hi]]
    ELSE IF n1.item.st = "Err" /\ n2.item.st # "None" THEN [item |-> n1.item, self |-> self]
    ELSE IF n1.item.st # "None" /\ n2.item.st = "Err" THEN [item |-> n2.item, self |-> self]
    ELSE [item |-> Err("NotEnoughData"), self |-> self]

Dict_second(self, n1) == Dict_match(self, n1, MultiIter_next(n1.self))

\* Dict::next.  The item (None, Ok(<<key, value>>), Err or Panic) and the
\* view after the call.
Dict_next(self) ==
    IF DataLen(self) = 0 THEN [item |-> None, self |-> self]
    ELSE Dict_second(self,
            MultiIter_next([start_pos |-> 0,
                            inner |-> Multi(SubSeq(self.outer_sig, 3, Len(self.outer_sig) - 1),
                                            self.lo, self.hi, self.is_big_endian)]))

\* ------------------------------------------------------ the client: values

u8(n) == Scalar("u8", <<n>>)
\* 0x1234u16, -2i16
u16_1234 == Scalar("u16", <<52, 18>>)
i16_m2 == Scalar("i16", <<254, 255>>)
u32(n) == Scalar("u32", <<n, 0, 0, 0>>)
i32(n) == Scalar("i32", <<n, 0, 0, 0>>)
u64(n) == Scalar("u64", <<n, 0, 0, 0, 0, 0, 0, 0>>)
i64_m1 == Scalar("i64", <<255, 255, 255, 255, 255, 255, 255, 255>>)
\* 1.0f64 = 0x3FF0000000000000
f64_1 == Scalar("f64", <<0, 0, 0, 0, 0, 0, 240, 63>>)
\* "k", "abc", "/", and the signatures "u" and "ai"
str_k == StringLike("DBusStr", BOf(<<107>>))
str_abc == StringLike("DBusStr", BOf(<<97, 98, 99>>))
path_root == StringLike("ObjectPath", BOf(<<47>>))
sig_u == StringLike("SignatureSingle", BOf(as_bytes(<<"u">>)))
sig_ai == StringLike("SignatureMulti", BOf(as_bytes(<<"a", "i">>)))

\* The scalar and string values the client appends.
Prims ==
    {u8(42), u16_1234, i16_m2, u32(7), i32(1), u64(1), i64_m1, f64_1,
     str_k, str_abc, path_root, sig_u, sig_ai}

\* let mut b = MultiBuf::new(); for v in elems { b.append(v)?; }
RECURSIVE MultiBufOf(_, _)
MultiBufOf(elems, big) ==
    IF elems = <<>> THEN MultiBuf_new
    ELSE MultiBuf_append(MultiBufOf(SubSeq(elems, 1, Len(elems) - 1), big),
                         elems[Len(elems)], big).self

\* let mut a = ArrayBuf::new(sig)?; for v in elems { a.append(v)?; }
RECURSIVE ArrayBufOf(_, _, _)
ArrayBufOf(sig, elems, big) ==
    IF elems = <<>> THEN ArrayBuf_new(sig).v
    ELSE ArrayBuf_append(ArrayBufOf(sig, SubSeq(elems, 1, Len(elems) - 1), big),
                         elems[Len(elems)], big).self

\* let mut d = DictBuf::new(ks, vs)?; for (k, v) in entries { d.append(k, v)?; }
RECURSIVE DictBufOf(_, _, _, _)
DictBufOf(ks, vs, entries, big) ==
    IF entries = <<>> THEN DictBuf_new(ks, vs).v
    ELSE DictBuf_append(DictBufOf(ks, vs, SubSeq(entries, 1, Len(entries) - 1), big),
                        entries[Len(entries)][1], entries[Len(entries)][2], big).self

VariantBufOf(value, big) == VariantBuf_new(value, big).v
StructBufOf(elems, big) == StructBuf_new(MultiBufOf(elems, big)).v

\* The containers the client appends: arrays of 4- and 8-aligned elements
\* (empty and not), variants, dicts, structs, and containers in containers.
Containers(big) ==
    {ArrayBufOf(<<"i">>, <<>>, big),
     ArrayBufOf(<<"i">>, <<i32(1), i32(2), i32(3)>>, big),
     ArrayBufOf(<<"t">>, <<>>, big),
     ArrayBufOf(<<"t">>, <<u64(1)>>, big),
     ArrayBufOf(<<"s">>, <<str_k, str_abc>>, big),
     VariantBufOf(u32(7), big),
     VariantBufOf(u64(1), big),
     VariantBufOf(str_k, big),
     VariantBufOf(ArrayBufOf(<<"t">>, <<u64(1)>>, big), big),
     VariantBufOf(StructBufOf(<<u8(1), u16_1234>>, big), big),
     DictBufOf(<<"s">>, <<"v">>, <<>>, big),
     DictBufOf(<<"s">>, <<"v">>, << <<str_k, VariantBufOf(u32(7), big)>> >>, big),
     DictBufOf(<<"y">>, <<"y">>, << <<u8(1), u8(2)>>, <<u8(3), u8(4)>> >>, big),
     StructBufOf(<<u8(1), u64(1)>>, big),
     StructBufOf(<<u8(1), u16_1234>>, big),
     StructBufOf(<<str_k, ArrayBufOf(<<"i">>, <<i32(1)>>, big)>>, big),
     ArrayBufOf(<<"v">>, <<VariantBufOf(u64(1), big)>>, big),
     ArrayBufOf(<<"(", "y", "q", ")">>,
                <<StructBufOf(<<u8(1), u16_1234>>, big),
                  StructBufOf(<<u8(42), u16_1234>>, big)>>, big)}

\* The interface the client describes, and what it passes to the builder:
\* member names, the one-argument list ("value",) of a u32 (the name and the
\* signature of each argument), annotation names and values.
IfaceName == "com.example.Iface"
MemberNames == {"A", "B"}
ArgStrs == <<<<"value", <<"u">>>>>>
AnnNames == {"org.freedesktop.DBus.Deprecated", "n"}
AnnValues == {"false"}

\* ---------------------------------------------------- the client: building

\* A call: the operation, what it was called on (before the call), the result.
Call(op, on, res) == [op |-> op, on |-> on, res |-> res]

Running == ret.res.st # "Panic"
Building == origin = "none" /\ Running

\* mb.append(&value)
MultiBufAppend ==
    /\ Building
    /\ Len(appended) < MaxElems
    /\ \E value \in Prims \cup Containers(IS_BIG_ENDIAN) :
         LET r == MultiBuf_append(mb, value, IS_BIG_ENDIAN)
         IN /\ BLen(r.self.data) <= MaxBytes
            /\ mb' = r.self
            /\ appended' = IF r.res.st = "Ok" THEN Append(appended, value) ELSE appended
            /\ val' = value
            /\ ret' = Call("MultiBuf::append", mb, r.res)
    /\ UNCHANGED <<IS_BIG_ENDIAN, ib, ab, db, reader>>

Init ==
    /\ IS_BIG_ENDIAN \in BOOLEAN
    /\ mb = MultiBuf_new
    /\ ab = None
    /\ db = None
    /\ ib = IfaceInfoBuilder_new(IfaceName)
    /\ val = None
    /\ appended = <<>>
    /\ bytes = <<>>
    /\ multi = None
    /\ origin = "none"
    /\ it = None
    /\ cur = None
    /\ ret = Call("MultiBuf::new", None, Ok("MultiBuf"))

\* ----------------------------------------------------- the client: reading

\* The byte values of raw input, and the raw slices: every slice of at most
\* MaxRawLen such bytes, the prefixes of two 8-byte words, and the bodies of
\* the scenarios (yq) = (1, 0x1234), ai = [1, 2, 3] and s = "abc",
\* little-endian, and an a{yy} whose 3-byte body is the entry (1, 2) and the
\* first byte of another.
RawBytes == {0, 1, 255}
Prefixes(s) == {SubSeq(s, 1, n) : n \in 0..Len(s)}
RawData ==
    UNION {[1..n -> RawBytes] : n \in 0..MaxRawLen}
    \cup Prefixes(<<1, 0, 0, 0, 0, 0, 0, 0>>)
    \cup Prefixes(<<0, 0, 0, 0, 0, 0, 0, 1>>)
    \cup {<<1, 0, 52, 18>>,
          <<12, 0, 0, 0, 1, 0, 0, 0, 2, 0, 0, 0, 3, 0, 0, 0>>,
          <<3, 0, 0, 0, 97, 98, 99, 0>>,
          <<3, 0, 0, 0, 0, 0, 0, 0, 1, 2, 3>>}
RawSigs ==
    {<<"y">>, <<"b">>, <<"n">>, <<"q">>, <<"i">>, <<"u">>, <<"h">>, <<"x">>, <<"t">>,
     <<"d">>, <<"s">>, <<"o">>, <<"g">>, <<"v">>, <<"a", "i">>, <<"a", "y">>,
     <<"(", "y", "q", ")">>, <<"a", "{", "y", "y", "}">>, <<"y", "u">>}

\* An iterator the client drives: its kind and state, with (ghost) whether it
\* is the outermost one, the state it was made in, and the numbers of Ok and
\* of Err items it has yielded.
Iterator(kind, st, top) ==
    [kind |-> kind, st |-> st, top |-> top, n |-> 0, errs |-> 0, from |-> st]
Held(s, by, top, idx) == [single |-> s, by |-> by, top |-> top, idx |-> idx]

\* let (sig, bytes) = mb.into_inner(); Multi::new(&sig, &bytes, IS_BIG_ENDIAN).iter()
MultiNewBuilt ==
    /\ Building
    /\ bytes' = BFlat(MultiBuf_into_inner(mb)[2])
    /\ multi' = Multi(MultiBuf_into_inner(mb)[1], 0, BLen(mb.data), IS_BIG_ENDIAN)
    /\ it' = Iterator("MultiIter", Multi_iter(multi'), TRUE)
    /\ ret' = Call("Multi::new", None, Ok("Multi"))
    /\ origin' = "built"
    /\ mb' = MultiBuf_new
    /\ cur' = None
    /\ UNCHANGED <<IS_BIG_ENDIAN, ib, ab, db, val, appended>>

\* Multi::new(sig, data, is_big_endian).iter() over bytes received
MultiNewRaw ==
    /\ Building
    /\ appended = <<>>
    /\ \E sig \in RawSigs, data \in RawData, is_big_endian \in BOOLEAN :
         /\ bytes' = data
         /\ multi' = Multi(sig, 0, Len(data), is_big_endian)
         /\ it' = Iterator("MultiIter", Multi_iter(multi'), TRUE)
         /\ ret' = Call("Multi::new", None, Ok("Multi"))
    /\ origin' = "raw"
    /\ cur' = None
    /\ UNCHANGED <<IS_BIG_ENDIAN, ib, builder>>

\* Single::new(sig, data, 0, is_big_endian) over bytes received
SingleNew ==
    /\ Building
    /\ appended = <<>>
    /\ \E sig \in {x \in RawSigs : SignatureSingle_is_valid(x)}, data \in RawData,
          is_big_endian \in BOOLEAN :
         /\ bytes' = data
         /\ cur' = Held(Single(sig, 0, Len(data), 0, is_big_endian), "Single::new", TRUE, 1)
    /\ ret' = Call("Single::new", None, Ok("Single"))
    /\ origin' = "raw"
    /\ UNCHANGED <<IS_BIG_ENDIAN, ib, builder, multi, it>>

Reading == origin # "none" /\ Running

\* multi.get_real_length(), before the client iterates
MultiGetRealLength ==
    /\ Reading
    /\ ret.op = "Multi::new"
    /\ ret' = Call("Multi::get_real_length", multi, Multi_get_real_length(multi))
    /\ UNCHANGED <<IS_BIG_ENDIAN, ib, builder, reader>>

\* What the client holds after next() returned item: the new single-reader
\* (for a dict entry, the key or the value), or nothing.
Yielded(item, by) ==
    IF item.st # "Ok" THEN {None}
    ELSE IF by = "Dict"
    THEN {Held(item.v[1], by, FALSE, it.n + 1), Held(item.v[2], by, FALSE, it.n + 1)}
    ELSE {Held(item.v, by, it.top, it.n + 1)}

IterStep(op, n) ==
    /\ it.errs < MaxErrs
    /\ ret' = Call(op, it, n.item)
    /\ it' = [it EXCEPT !.st = n.self,
                        !.n = IF n.item.st = "Ok" THEN @ + 1 ELSE @,
                        !.errs = IF n.item.st = "Err" THEN @ + 1 ELSE @]
    /\ cur' \in Yielded(n.item, it.kind)
    /\ UNCHANGED <<IS_BIG_ENDIAN, ib, builder, bytes, multi, origin>>

\* it.next(), it a MultiIter
MultiIterNext ==
    /\ Reading
    /\ it # None /\ it.kind = "MultiIter"
    /\ IterStep("MultiIter::next", MultiIter_next(it.st))

\* it.next(), it an Array
ArrayNext ==
    /\ Reading
    /\ it # None /\ it.kind = "Array"
    /\ IterStep("Array::next", Array_next(it.st))

\* it.next(), it a Dict
DictNext ==
    /\ Reading
    /\ it # None /\ it.kind = "Dict"
    /\ IterStep("Dict::next", Dict_next(it.st))

\* cur.parse() returned r, and the client goes on with what it got: the
\* inner reader of a variant, the iterator of a struct's Multi, the Array or
\* the Dict.
ParseStep(r) ==
    LET tag == IF r.st = "Ok" THEN r.v.tag ELSE "none"
    IN /\ ret' = Call("Single::parse", cur, r)
       /\ cur' = IF tag = "Variant"
                 THEN Held(r.v.v, "inner_variant", FALSE, 1)
                 ELSE None
       /\ it' = CASE tag = "Struct" -> Iterator("MultiIter", Multi_iter(r.v.v), FALSE)
                  [] tag = "Array" -> Iterator("Array", r.v.v, FALSE)
                  [] tag = "Dict" -> Iterator("Dict", r.v.v, FALSE)
                  [] OTHER -> it

SingleParse ==
    /\ Reading
    /\ cur # None
    /\ ParseStep(parse(cur.single))
    /\ UNCHANGED <<IS_BIG_ENDIAN, ib, builder, bytes, multi, origin>>

Next ==
    \/ MultiBufAppend
    \/ MultiNewBuilt
    \/ MultiNewRaw
    \/ SingleNew
    \/ MultiGetRealLength
    \/ MultiIterNext
    \/ ArrayNext
    \/ DictNext
    \/ SingleParse

Spec == Init /\ [][Next]_vars

\* ------------------------------------------- the client: the array size cap

\* A string of n bytes 'a'.
StrOfLen(n) == StringLike("DBusStr", BRun(97, n))

\* The lengths of the strings the client appends near the cap.  In an
\* array of strings an element of n bytes takes 4 + n + 1 bytes, so two of
\* 2^25 - 5 bytes fill the cap exactly; in a dict of strings with the key
\* "aaa" an entry takes 13 + n bytes, so two of 2^25 - 13 do.
BigLens == {3, 33554419, 33554420, 33554427, 33554428}

InitCap ==
    /\ IS_BIG_ENDIAN \in BOOLEAN
    /\ mb = MultiBuf_new
    /\ ab = ArrayBuf_new(<<"s">>).v
    /\ db = DictBuf_new(<<"s">>, <<"s">>).v
    /\ ib = IfaceInfoBuilder_new(IfaceName)
    /\ val = None
    /\ appended = <<>>
    /\ bytes = <<>>
    /\ multi = None
    /\ origin = "none"
    /\ it = None
    /\ cur = None
    /\ ret = Call("DictBuf::new", None, Ok("DictBuf"))

\* ab.append(&value)
ArrayBufAppend ==
    /\ Len(appended) < MaxCalls
    /\ \E value \in {StrOfLen(n) : n \in BigLens} \cup {u32(7)} :
         LET r == ArrayBuf_append(ab, value, IS_BIG_ENDIAN)
         IN /\ ab' = r.self
            /\ appended' = IF r.res.st = "Ok" THEN Append(appended, value) ELSE appended
            /\ val' = value
            /\ ret' = Call("ArrayBuf::append", ab, r.res)
    /\ UNCHANGED <<IS_BIG_ENDIAN, ib, mb, db, reader>>

\* db.append(&key, &value)
DictBufAppend ==
    /\ Len(appended) < MaxCalls
    /\ \E key \in {StrOfLen(3), u32(7)}, value \in {StrOfLen(n) : n \in BigLens} \cup {u32(7)} :
         LET r == DictBuf_append(db, key, value, IS_BIG_ENDIAN)
         IN /\ db' = r.self
            /\ appended' = IF r.res.st = "Ok" THEN Append(appended, <<key, value>>)
                           ELSE appended
            /\ val' = <<key, value>>
            /\ ret' = Call("DictBuf::append", db, r.res)
    /\ UNCHANGED <<IS_BIG_ENDIAN, ib, mb, ab, reader>>

NextCap ==
    \/ ArrayBufAppend
    \/ DictBufAppend

SpecCap == InitCap /\ [][NextCap]_vars

\* ------------------------------------------- the client: the signature cap

\* The signature (y...y) of a struct of n bytes, and the empty array of such
\* structs: a value whose signature is n + 3 long.
StructSig(n) == <<"(">> \o [i \in 1..n |-> "y"] \o <<")">>
LongSigValue(n) == ArrayBuf_new(StructSig(n)).v

\* The numbers of fields: signatures of 100, 127, 128 and 255 characters.
LongSigs == {97, 124, 125, 252}

InitSig ==
    /\ IS_BIG_ENDIAN \in BOOLEAN
    /\ mb = MultiBuf_new
    /\ ab = None
    /\ db = None
    /\ ib = IfaceInfoBuilder_new(IfaceName)
    /\ val = None
    /\ appended = <<>>
    /\ bytes = <<>>
    /\ multi = None
    /\ origin = "none"
    /\ it = None
    /\ cur = None
    /\ ret = Call("MultiBuf::new", None, Ok("MultiBuf"))

\* mb.append(&value), the signature of value long
MultiBufAppendLong ==
    /\ Len(appended) < MaxCalls
    /\ \E value \in {LongSigValue(n) : n \in LongSigs} \cup {u8(42), str_k} :
         LET r == MultiBuf_append(mb, value, IS_BIG_ENDIAN)
         IN /\ mb' = r.self
            /\ appended' = IF r.res.st = "Ok" THEN Append(appended, value) ELSE appended
            /\ val' = value
            /\ ret' = Call("MultiBuf::append", mb, r.res)
    /\ UNCHANGED <<IS_BIG_ENDIAN, ib, ab, db, reader>>

NextSig == MultiBufAppendLong

SpecSig == InitSig /\ [][NextSig]_vars

\* ------------------------------------------ the client: describing an interface

\* The builder does not marshal: one target stands for both.
InitInfo ==
    /\ IS_BIG_ENDIAN = FALSE
    /\ mb = MultiBuf_new
    /\ ab = None
    /\ db = None
    /\ ib = IfaceInfoBuilder_new(IfaceName)
    /\ val = None
    /\ appended = <<>>
    /\ bytes = <<>>
    /\ multi = None
    /\ origin = "none"
    /\ it = None
    /\ cur = None
    /\ ret = Call("IfaceInfoBuilder::new", None, Ok("Self"))

\* ib = ib.<op>(..) for an op that adds an item of the kind
Added(op, kind, b) ==
    /\ Len(appended) < MaxItems
    /\ ib' = b
    /\ appended' = Append(appended, kind)
    /\ val' = None
    /\ ret' = Call(op, ib, Ok("Self"))
    /\ UNCHANGED <<IS_BIG_ENDIAN, mb, ab, db, reader>>

\* ib = ib.signal::<(u32,), _>(name, ("value",))
IfaceSignal ==
    \E name \in MemberNames :
        Added("IfaceInfoBuilder::signal", "Signal", IfaceInfoBuilder_signal(ib, name, ArgStrs))

\* ib = ib.method(name, ("value",), (), f)
IfaceMethod ==
    \E name \in MemberNames :
        Added("IfaceInfoBuilder::method", "Method",
              IfaceInfoBuilder_method(ib, name, ArgStrs, <<>>))

\* ib = ib.prop_rw::<u32, _, _, _>(name, getf, setf)
IfacePropRw ==
    \E name \in MemberNames :
        Added("IfaceInfoBuilder::prop_rw", "Prop", IfaceInfoBuilder_prop_rw(ib, name, <<"u">>))

\* ib = ib.prop_ro::<u32, _, _>(name, getf)
IfacePropRo ==
    \E name \in MemberNames :
        Added("IfaceInfoBuilder::prop_ro", "Prop", IfaceInfoBuilder_prop_ro(ib, name, <<"u">>))

\* ib = ib.<op>(..) for an op that annotates; a panic leaves no builder to go on with
Annotated(op, args, r) ==
    /\ Running
    /\ ib' = r.self
    /\ val' = args
    /\ ret' = Call(op, ib, r.res)
    /\ UNCHANGED <<IS_BIG_ENDIAN, mb, ab, db, appended, reader>>

\* ib = ib.annotate(name, value)
IfaceAnnotate ==
    \E name \in AnnNames, value \in AnnValues :
        Annotated("IfaceInfoBuilder::annotate", <<name, value>>,
                  IfaceInfoBuilder_annotate(ib, name, value))

\* ib = ib.deprecated()
IfaceDeprecated ==
    Annotated("IfaceInfoBuilder::deprecated", None, IfaceInfoBuilder_deprecated(ib))

NextInfo ==
    \/ IfaceSignal
    \/ IfaceMethod
    \/ IfacePropRw
    \/ IfacePropRo
    \/ IfaceAnnotate
    \/ IfaceDeprecated

SpecInfo == InitInfo /\ [][NextInfo]_vars

\* ---------------------------------------------------------- the properties

\* The Parsed variant of each marshal_impl! type.
ParsedTag(k) ==
    CASE k = "u8" -> "Byte" [] k = "u16" -> "UInt16" [] k = "u32" -> "UInt32"
      [] k = "u64" -> "UInt64" [] k = "i16" -> "Int16" [] k = "i32" -> "Int32"
      [] k = "i64" -> "Int64" [] k = "f64" -> "Double"

\* The bytes of the view [lo, hi).
ViewBytes(view) == SubSeq(bytes, view.lo + 1, view.hi)

\* Whether the Parsed p is the value: the variant of the value's type with,
\* for a scalar, its digits; for a string, its bytes; for a container, its
\* signature and a view over exactly its payload.
SameValue(p, value) ==
    CASE value.k \in MarshalImpls -> p.tag = ParsedTag(value.k) /\ p.v = value.d
      [] value.k = "DBusStr" -> p.tag = "String" /\ p.v = BFlat(value.s)
      [] value.k = "ObjectPath" -> p.tag = "ObjectPath" /\ p.v = BFlat(value.s)
      [] value.k \in {"SignatureMulti", "SignatureSingle"} ->
            p.tag = "Signature" /\ as_bytes(p.v) = BFlat(value.s)
      [] value.k = "ArrayBuf" ->
            /\ p.tag = "Array"
            /\ <<"a">> \o p.v.inner_sig = value.outer_sig
            /\ ViewBytes(p.v) = BFlat(value.data)
      [] value.k = "DictBuf" ->
            /\ p.tag = "Dict"
            /\ p.v.outer_sig = value.outer_sig
            /\ ViewBytes(p.v) = BFlat(value.data)
      [] value.k = "StructBuf" ->
            /\ p.tag = "Struct"
            /\ p.v.sig = value.inner.sig
            /\ ViewBytes(p.v) = BFlat(value.inner.data)
      [] value.k = "VariantBuf" ->
            /\ p.tag = "Variant"
            /\ p.v.sig = value.sig
            /\ ViewBytes(p.v) = BFlat(value.data)

\* The bytes the first primitive read of parse takes for a type character
\* (read1, read2, read4, read8 or read_f64), and the encoded size of the
\* fixed-size types.
ReadWidth(c) ==
    CASE c \in {"y", "g", "v"} -> 1
      [] c \in {"n", "q"} -> 2
      [] c \in {"i", "u", "b", "h", "s", "o", "a"} -> 4
      [] c \in {"x", "t", "d"} -> 8
FixedChars == {"y", "n", "q", "i", "u", "b", "h", "x", "t", "d"}

\* C1 (round trip): when one value v was appended to a fresh MultiBuf and
\* the Multi over into_inner's signature and bytes, in the host's
\* endianness, is iterated, the first next() yields a single-reader and
\* parsing it returns Ok with a Parsed equal to v.
C1_RoundTrip ==
    (origin = "built" /\ Len(appended) = 1) =>
        /\ (ret.op = "MultiIter::next" /\ ret.on.top /\ ret.on.n = 0) => ret.res.st = "Ok"
        /\ (ret.op = "Single::parse" /\ ret.on.top /\ ret.on.idx = 1) =>
              (ret.res.st = "Ok" /\ SameValue(ret.res.v, appended[1]))

\* C2 (builder alignment): every value in the data of the MultiBuf, the
\* values nested in containers included, starts at an offset that is a
\* multiple of align_of of its type character.
C2_BuilderAlignment ==
    \A m \in mb.marks : m[1] % align_of(m[2]) = 0

\* C3 (length exactness): Multi::get_real_length over the signature and
\* bytes a MultiBuf produced returns Ok(n), n the number of bytes produced.
C3_LengthExact ==
    (origin = "built" /\ ret.op = "Multi::get_real_length") =>
        (ret.res.st = "Ok" /\ ret.res.v = Len(bytes))

\* C4 (the size cap is atomic): an ArrayBuf::append or DictBuf::append of
\* values of the right types returns NumberTooBig and leaves data as it was
\* when the data with the value appended would be longer than ARRAY_MAX_LEN,
\* and otherwise succeeds with that data; data is never longer than the cap.
C4_SizeCapAtomic ==
    /\ BLen(ab.data) <= ARRAY_MAX_LEN
    /\ BLen(db.data) <= ARRAY_MAX_LEN
    /\ (/\ ret.op = "ArrayBuf::append"
        /\ <<"a">> \o signature(val) = ret.on.outer_sig) =>
          LET would == append_data_to(val, ret.on.data, IS_BIG_ENDIAN)
          IN IF BLen(would) > ARRAY_MAX_LEN
             THEN ret.res = Err("NumberTooBig") /\ ab = ret.on
             ELSE ret.res = Ok("unit") /\ ab.data = would
    /\ (/\ ret.op = "DictBuf::append"
        /\ signature(val[1]) = ret.on.key_sig
        /\ signature(val[2]) = ret.on.value_sig) =>
          LET would == append_data_to(val[2],
                                      append_data_to(val[1], align_buf(ret.on.data, 8),
                                                     IS_BIG_ENDIAN),
                                      IS_BIG_ENDIAN)
          IN IF BLen(would) > ARRAY_MAX_LEN
             THEN ret.res = Err("NumberTooBig") /\ db = ret.on
             ELSE ret.res = Ok("unit") /\ db.data = would

\* A DictBuf::append was refused over the cap on data whose length is not a
\* multiple of 8, so the entry's padding was written and taken back.
C4_Witness ==
    /\ ret.op = "DictBuf::append"
    /\ ret.res = Err("NumberTooBig")
    /\ BLen(ret.on.data) % 8 # 0
    /\ BLen(ret.on.data) > 0

RECURSIVE SigsOf(_)
\* The concatenation of the signatures of values.
SigsOf(values) ==
    IF values = <<>> THEN <<>> ELSE signature(Head(values)) \o SigsOf(Tail(values))

\* C5 (signature cap): MultiBuf::append fails with NumberTooBig, the buffer
\* unchanged, exactly when the signature's length plus that of the value's
\* signature exceeds 255; otherwise it succeeds, the signature extended by
\* the value's and the data by its bytes.  The signature is the
\* concatenation of those of the accepted values, at most 255 long.
C5_SignatureCap ==
    /\ Len(mb.sig) <= 255
    /\ mb.sig = SigsOf(appended)
    /\ ret.op = "MultiBuf::append" =>
          IF Len(ret.on.sig) + Len(signature(val)) > 255
          THEN ret.res = Err("NumberTooBig") /\ mb = ret.on
          ELSE /\ ret.res = Ok("unit")
               /\ mb.sig = ret.on.sig \o signature(val)
               /\ mb.data = append_data_to(val, ret.on.data, IS_BIG_ENDIAN)

\* An append was refused that would have made the signature 256 long, on a
\* buffer that had accepted one that made it 255 long or less.
C5_Witness ==
    /\ ret.op = "MultiBuf::append"
    /\ ret.res = Err("NumberTooBig")
    /\ Len(ret.on.sig) + Len(signature(val)) = 256
    /\ Len(appended) >= 2

\* C6 (reader alignment): every single-reader the readers produce from a
\* Multi over bytes that begin at the body origin starts at an offset of
\* bytes that is a multiple of align_of of its first type character.
C6_ReaderAlignment ==
    (multi # None /\ cur # None) =>
        cur.single.lo % align_of(cur.single.sig[1]) = 0

\* The inner reader of a variant, past the start of the bytes, holds a type
\* aligned to 8.
C6_Witness ==
    /\ multi # None
    /\ cur # None
    /\ cur.by = "inner_variant"
    /\ align_of(cur.single.sig[1]) = 8
    /\ cur.single.lo > 0

\* C7 (short input is reported): parse on a single-reader whose view is
\* shorter than its first primitive read needs returns Err(NotEnoughData).
C7_ShortInputReported ==
    (/\ ret.op = "Single::parse"
     /\ ret.on.single.sig[1] # "("
     /\ DataLen(ret.on.single) < ReadWidth(ret.on.single.sig[1]))
        => (ret.res.st = "Err" /\ ret.res.v = "NotEnoughData")

\* C8 (array iteration visits every element): over an Array view holding
\* n >= 1 elements of a fixed-size type, the first n calls of next() yield
\* Ok single-readers, one per element in payload order, and the call after
\* them ends the iteration.
C8_ArrayVisitsAll ==
    (/\ ret.op = "Array::next"
     /\ ret.on.from.inner_sig[1] \in FixedChars
     /\ DataLen(ret.on.from) >= ReadWidth(ret.on.from.inner_sig[1])
     /\ DataLen(ret.on.from) % ReadWidth(ret.on.from.inner_sig[1]) = 0)
        => LET a == ret.on.from
               w == ReadWidth(a.inner_sig[1])
           IN IF ret.on.n < DataLen(a) \div w
              THEN /\ ret.res.st = "Ok"
                   /\ ret.res.v.lo = a.lo + ret.on.n * w
                   /\ ret.res.v.hi = a.lo + ret.on.n * w + w
              ELSE ret.res.st = "None"

\* C9 (16-bit scalars decode): parse on a single-reader with signature n or
\* q over at least two bytes returns Ok(Int16) or Ok(UInt16) of the first
\* two bytes in the reader's endianness.
C9_Decode16 ==
    (/\ ret.op = "Single::parse"
     /\ ret.on.single.sig[1] \in {"n", "q"}
     /\ DataLen(ret.on.single) >= 2)
        => LET w == Slice(ret.on.single, 0, 2)
           IN /\ ret.res.st = "Ok"
              /\ ret.res.v = [tag |-> IF ret.on.single.sig[1] = "n" THEN "Int16" ELSE "UInt16",
                              v |-> IF ret.on.single.is_big_endian THEN <<w[2], w[1]>> ELSE w]

\* C10 (boolean domain): parse on a single-reader with signature b over at
\* least four bytes returns Boolean(false) when the uint32 they spell in the
\* reader's endianness is 0, Boolean(true) when it is 1, and
\* Err(InvalidBoolean) otherwise.
C10_BooleanDomain ==
    (/\ ret.op = "Single::parse"
     /\ ret.on.single.sig[1] = "b"
     /\ DataLen(ret.on.single) >= 4)
        => LET w == Slice(ret.on.single, 0, 4)
               msb == IF ret.on.single.is_big_endian THEN <<w[1], w[2], w[3]>>
                      ELSE <<w[4], w[3], w[2]>>
               lsb == IF ret.on.single.is_big_endian THEN w[4] ELSE w[1]
           IN IF msb = <<0, 0, 0>> /\ lsb \in {0, 1}
              THEN /\ ret.res.st = "Ok"
                   /\ ret.res.v = [tag |-> "Boolean", v |-> lsb = 1]
              ELSE /\ ret.res.st = "Err"
                   /\ ret.res.v = "InvalidBoolean"

\* A big-endian reader parsed the bytes 0, 0, 0, 1 as Boolean(true).
C10_Witness ==
    /\ ret.op = "Single::parse"
    /\ ret.on.single.sig[1] = "b"
    /\ ret.on.single.is_big_endian
    /\ DataLen(ret.on.single) >= 4
    /\ Slice(ret.on.single, 0, 4) = <<0, 0, 0, 1>>
    /\ ret.res.st = "Ok"
    /\ ret.res.v = [tag |-> "Boolean", v |-> TRUE]

\* C11 (element type check): ArrayBuf::append of a value whose signature
\* is not the array's inner signature, and DictBuf::append of a key or a
\* value whose signature is not the dict's, return WrongType and leave the
\* buffer as it was; every value stored in a buffer has the declared type.
C11_ElementTypeCheck ==
    /\ \A m \in ab.marks : m[2] = ab.outer_sig[2]
    /\ \A m \in db.marks : m[2] \in {"{", db.key_sig[1], db.value_sig[1]}
    /\ (/\ ret.op = "ArrayBuf::append"
        /\ <<"a">> \o signature(val) # ret.on.outer_sig) =>
          (ret.res = Err("WrongType") /\ ab = ret.on)
    /\ (/\ ret.op = "DictBuf::append"
        /\ (signature(val[1]) # ret.on.key_sig \/ signature(val[2]) # ret.on.value_sig)) =>
          (ret.res = Err("WrongType") /\ db = ret.on)

\* An ArrayBuf that holds elements refused a value of another type.
C11_Witness ==
    /\ ret.op = "ArrayBuf::append"
    /\ ret.res = Err("WrongType")
    /\ signature(val) = <<"u">>
    /\ BLen(ret.on.data) > 0

\* C12 (the view of a top-level array covers the whole value): when the
\* MultiBuf's bytes are read back, the single-reader MultiIter yields for an
\* array or dict whose elements are aligned to 8 spans the length word, the
\* padding and the body, and parse on it returns Ok with an Array or Dict
\* view over exactly the body.
C12_ArrayViewWhole ==
    (/\ origin = "built"
     /\ ret.op = "Single::parse"
     /\ ret.on.by = "MultiIter"
     /\ ret.on.top
     /\ ret.on.single.sig[1] = "a"
     /\ align_of(ret.on.single.sig[2]) = 8)
        => LET s == ret.on.single
               body == BLen(appended[ret.on.idx].data)
               start == align_up(s.lo + 4, 8)
           IN /\ s.hi >= start + body
              /\ ret.res.st = "Ok"
              /\ ret.res.v.tag \in {"Array", "Dict"}
              /\ ret.res.v.v.lo = start
              /\ ret.res.v.v.hi = start + body

\* C13 (array iteration stops after an error): once next() on an Array view
\* has returned Some(Err(..)), every later call of next() on it returns None.
C13_ArrayStopsAfterErr ==
    (ret.op = "Array::next" /\ ret.on.errs >= 1) => ret.res.st = "None"

RECURSIVE NumTypes(_)
\* The number of complete types of a valid multi-signature.
NumTypes(sig) ==
    IF sig = <<>> THEN 0 ELSE 1 + NumTypes(SubSeq(sig, TypeEnd(sig, 1), Len(sig)))

\* C14 (MultiIter is finite): over a signature of k top-level elements
\* next() yields at most k items, Ok or Err, and None from then on.
C14_MultiIterFinite ==
    (/\ ret.op = "MultiIter::next"
     /\ ret.on.n + ret.on.errs >= NumTypes(ret.on.from.inner.sig))
        => ret.res.st = "None"

\* C15 (the Dict cursor stays inside the payload): every Dict::next returns
\* None, an Err, or the next pair; it never reads or slices out of range, and
\* after a pair the cursor is either the empty slice or has moved forward by
\* a multiple of 8 bytes to a place inside the payload.
C15_DictCursorInside ==
    ret.op = "Dict::next" =>
        /\ ret.res.st \in {"None", "Err", "Ok"}
        /\ ret.res.st = "Ok" =>
              \/ DataLen(it.st) = 0
              \/ /\ it.st.hi = ret.on.st.hi
                 /\ it.st.lo > ret.on.st.lo /\ it.st.lo <= it.st.hi
                 /\ (it.st.lo - ret.on.st.lo) % 8 = 0

\* Whether the map m is the map x after insert(name, value): name is mapped
\* to value and every other key is as it was.
IsInsert(m, x, name, value) ==
    /\ DOMAIN m = DOMAIN x \cup {name}
    /\ m[name] = value
    /\ \A n \in DOMAIN x \ {name} : m[n] = x[n]

\* Whether the list new is the list old but for the annotation map of its
\* last item, which is the old one after insert(name, value).
LastAnnotated(new, old, name, value) ==
    /\ Len(new) = Len(old) /\ Len(old) > 0
    /\ \A i \in 1..Len(old) - 1 : new[i] = old[i]
    /\ [new[Len(old)] EXCEPT !.anns = old[Len(old)].anns] = old[Len(old)]
    /\ IsInsert(new[Len(old)].anns, old[Len(old)].anns, name, value)

\* What C16 says of a call that inserted (name, value): it went to the map of
\* the item of the most recent signal, method, prop_rw or prop_ro call, or to
\* the interface's own map when there was none, and nothing else changed.
AnnotatedLast(name, value) ==
    LET old == ret.on.info
        new == ib.info
        kind == IF appended = <<>> THEN "Iface" ELSE appended[Len(appended)]
    IN /\ ret.res.st = "Ok"
       /\ ib.last = ret.on.last
       /\ new.name = old.name
       /\ IF kind = "Iface" THEN IsInsert(new.anns, old.anns, name, value)
                            ELSE new.anns = old.anns
       /\ IF kind = "Method" THEN LastAnnotated(new.methods, old.methods, name, value)
                             ELSE new.methods = old.methods
       /\ IF kind = "Signal" THEN LastAnnotated(new.signals, old.signals, name, value)
                             ELSE new.signals = old.signals
       /\ IF kind = "Prop" THEN LastAnnotated(new.props, old.props, name, value)
                           ELSE new.props = old.props

\* C16 (annotations attach to the most recently added item): annotate(name,
\* value), and deprecated() with ("org.freedesktop.DBus.Deprecated", "true"),
\* insert into the annotation map of the item added by the most recent
\* signal, method, prop_rw or prop_ro call, or into the interface's own map
\* if there was none; the other items' maps and the lists stay as they were.
C16_AnnotateLast ==
    /\ ret.op = "IfaceInfoBuilder::annotate" => AnnotatedLast(val[1], val[2])
    /\ ret.op = "IfaceInfoBuilder::deprecated" =>
          AnnotatedLast("org.freedesktop.DBus.Deprecated", "true")

\* deprecated() on the second of two signals, the first annotated with "n" and
\* the interface annotated too, the second having been marked "false" before.
C16_Witness ==
    /\ ret.op = "IfaceInfoBuilder::deprecated"
    /\ Len(ib.info.signals) = 2
    /\ ib.info.anns # Annotations_default
    /\ DOMAIN ib.info.signals[1].anns = {"n"}
    /\ ret.on.info.signals[2].anns = [n \in {"org.freedesktop.DBus.Deprecated"} |-> "false"]
    /\ ib.info.signals[2].anns = [n \in {"org.freedesktop.DBus.Deprecated"} |-> "true"]

====
